---- MODULE Spec2Model ----
(***************************************************************************)
(* State-machine model of the Sonic deployer (class SonicDeployer and      *)
(* main).  The repository holds two variants of the program:               *)
(*   "part_000"  src/unnamed/part_000  (Token runs only)                   *)
(*   "deploy_js" src/deploy.js         (Token and NFT runs)                *)
(* The variable `variant` fixes which of the two a behaviour runs.         *)
(*                                                                         *)
(* The chain client, the operator and Math.random are the environment:     *)
(* every chain call either returns or throws, every prompt is answered     *)
(* with a text from a small set, every Math.random() call returns k/grain. *)
(***************************************************************************)
EXTENDS Integers, Sequences, FiniteSets, TLC

(***************************************************************************)
(* Bounds of the model.                                                    *)
(***************************************************************************)
MaxLines == 2          \* lines of the key file
MaxLoadLines == 4      \* lines of the key file where init() alone is examined
MaxClock == 1          \* largest clock reading (ms) told apart; the clock saturates there
MaxReports == 2        \* generateReport calls in one process
MaxRecords == 4        \* a run starts only while the records it can append keep both logs at most this long in total
PickGrain == 3         \* Math.random() for a pick returns k/PickGrain, k < PickGrain
AmountGrain == 1       \* Math.random() for an amount returns k/AmountGrain, k < AmountGrain

(***************************************************************************)
(* Program constants.                                                      *)
(***************************************************************************)
DefaultInteractionCount == 3
DefaultInteractionInterval == 1
BalanceThreshold == 100000000       \* 0.1 * 1e9
TOKEN_INTERACTIONS == <<"mint", "transfer", "burn">>
NFT_INTERACTIONS == <<"mint", "transfer", "update">>
MintAmountRange == 1000
TransferAmountRange == 100
BurnAmountRange == 50
MsPerMinute == 60000                \* 60 * 1000

Variants == {"part_000", "deploy_js"}

VARIABLES
    variant,        \* which source file runs
    keyFile,        \* private-sonic.txt: [exists, lines]
    pc,             \* where main's control is
    exitCode,       \* -1 while running, else the process exit code
    wallets,        \* this.wallets
    deployments,    \* this.deployments
    interactions,   \* this.interactions
    settings,       \* this.settings
    now,            \* Date.now()
    files,          \* report files on disk: set of [name, content]
    written,        \* history: names handed to fs.writeFileSync, in call order
    lastReport,     \* history: text returned by the latest generateReport call
    choice,         \* startDeployment's `choice`
    wi,             \* position in this.wallets of the wallet being processed
    i,              \* the interaction loop's counter
    result,         \* `result.address` of the current wallet's deploy
    run,            \* history: number of orchestration runs started
    balRead,        \* history, per wallet position and run: balance read (-1 unread, -2 threw)
    deployOutcome,  \* history, per wallet position and run: "none", "ok", "failed"
    attempts,       \* history, per wallet position and run: perform*Interaction calls
    delays,         \* history, per wallet position and run: inter-interaction sleeps
    chainFailed,    \* history, per run: some chain call of the run threw
    lastAttempt,    \* history: the perform*Interaction call of the step just taken
    typed,          \* history: what the operator typed into the settings prompt of the step just taken
    lastDeploy      \* history: awaited calls that returned in the deploy of the step just taken (-1: no deploy)

vars == <<variant, keyFile, pc, exitCode, wallets, deployments, interactions,
          settings, now, files, written, lastReport, choice, wi, i, result,
          run, balRead, deployOutcome, attempts, delays, chainFailed, lastAttempt,
          lastDeploy, typed>>

runVars == <<choice, wi, i, result, run, balRead, deployOutcome, attempts, delays, chainFailed,
             lastAttempt, lastDeploy>>
logVars == <<deployments, interactions>>
diskVars == <<files, written, lastReport>>

(***************************************************************************)
(* Helpers.                                                                *)
(***************************************************************************)
Max0(n) == IF n < 0 THEN 0 ELSE n

RECURSIVE SelectSeqIdx(_, _, _)
\* positions p >= from of s with s[p] \in keep, in order
SelectSeqIdx(s, from, keep) ==
    IF from > Len(s) THEN <<>>
    ELSE IF s[from] \in keep THEN <<from>> \o SelectSeqIdx(s, from + 1, keep)
    ELSE SelectSeqIdx(s, from + 1, keep)

\* Math.floor(Math.random() * n) for Math.random() = k / grain
RandomIndex(k, grain, n) == (k * n) \div grain

(***************************************************************************)
(* init(): the key file's lines are "valid" (decodes to a keypair),        *)
(* "blank" (empty after trim) or "malformed" (bs58.decode or fromSecretKey *)
(* throws).                                                                *)
(***************************************************************************)
LineKinds == {"valid", "blank", "malformed"}

\* the key files of at most `most` lines, and the missing one
KeyFilesUpTo(most) ==
    {[exists |-> FALSE, lines |-> <<>>]} \cup
    {[exists |-> TRUE, lines |-> l] : l \in UNION {[1..n -> LineKinds] : n \in 0..most}}

KeyFiles == KeyFilesUpTo(MaxLines)

\* .split('\n').map(trim).filter(key => key.length > 0)
PrivateKeys(f) == SelectSeq(f, LAMBDA l : l # "blank")

LoadWallets_StopAtMalformed(f) ==
    LET keys == PrivateKeys(f)
        bad == {p \in 1..Len(keys) : keys[p] = "malformed"}
        upTo == IF bad = {} THEN Len(keys) ELSE (CHOOSE p \in bad : \A q \in bad : p <= q) - 1
        kept == SelectSeqIdx(SubSeq(keys, 1, upTo), 1, {"valid"})
    IN  [p \in 1..Len(kept) |->
            [index |-> kept[p], tokenAccounts |-> {}, nftAccounts |-> {}]]

\* privateKeys.map((key, index) => wallet | null).filter(wallet => wallet !== null)
LoadWallets(f) ==
    LET keys == PrivateKeys(f)
        kept == SelectSeqIdx(keys, 1, {"valid"})
    IN  [p \in 1..Len(kept) |->
            [index |-> kept[p], tokenAccounts |-> {}, nftAccounts |-> {}]]

NoHistory == [p \in {} |-> 0]

\* no settings prompt was answered in the step just taken
NothingTyped == [field |-> "", text |-> <<>>]

\* no perform*Interaction call was made in the step just taken
NoAttempt == [action |-> "", calls |-> <<>>, recipient |-> 0, error |-> "", returned |-> FALSE]

\* the state after `new SonicDeployer()`, whatever the key file on disk
Constructed ==
    /\ variant \in Variants
    /\ pc = "start"
    /\ exitCode = -1
    /\ wallets = <<>>
    /\ deployments = <<>>
    /\ interactions = <<>>
    /\ settings = [interactionCount |-> DefaultInteractionCount,
                   interactionInterval |-> DefaultInteractionInterval]
    /\ now = 0
    /\ files = {}
    /\ written = <<>>
    /\ lastReport = [deployRows |-> <<>>, interactionRows |-> <<>>, generatedAt |-> 0]
    /\ choice = ""
    /\ wi = 0
    /\ i = 0
    /\ result = 0
    /\ run = 0
    /\ balRead = NoHistory
    /\ deployOutcome = NoHistory
    /\ attempts = NoHistory
    /\ delays = NoHistory
    /\ chainFailed = FALSE
    /\ lastAttempt = NoAttempt
    /\ lastDeploy = -1
    /\ typed = NothingTyped

Init ==
    /\ keyFile \in KeyFiles
    /\ Constructed

Load_NoWalletCheck ==
    /\ pc = "start"
    /\ IF ~keyFile.exists
       THEN /\ pc' = "exit"
            /\ exitCode' = 1
            /\ UNCHANGED wallets
       ELSE /\ pc' = "menu"
            /\ wallets' = LoadWallets(keyFile.lines)
            /\ UNCHANGED exitCode
    /\ UNCHANGED <<variant, keyFile, settings, typed, now, logVars, diskVars, runVars>>

\* main(): init() returns false -> process.exit(1); else displayMenu()
Load ==
    /\ pc = "start"
    /\ IF ~keyFile.exists
       THEN /\ pc' = "exit"
            /\ exitCode' = 1
            /\ UNCHANGED wallets
       ELSE LET ws == LoadWallets(keyFile.lines) IN
            IF Len(ws) = 0
            THEN /\ pc' = "exit"
                 /\ exitCode' = 1
                 /\ wallets' = ws
            ELSE /\ pc' = "menu"
                 /\ wallets' = ws
                 /\ UNCHANGED exitCode
    /\ UNCHANGED <<variant, keyFile, settings, typed, now, logVars, diskVars, runVars>>


(***************************************************************************)
(* The menus.  A text typed at a menu prompt is compared whole with the    *)
(* menu's literals, so it is an atom here; a text typed at a settings      *)
(* prompt goes through parseInt, so it is a sequence of characters.        *)
(***************************************************************************)
MenuInputs == {"1", "2", "3", "4", "5", "x"}
SettingsMenuInputs == {"1", "2", "3", "4", "x"}
SettingTexts ==
    { <<"0">>, <<"1">>, <<"-", "1">>, <<"a">>, <<" ", "1", "a">> }

Digits == {"0", "1", "2", "3", "4", "5", "6", "7", "8", "9"}

DigitValue(c) ==
    CASE c = "0" -> 0 [] c = "1" -> 1 [] c = "2" -> 2 [] c = "3" -> 3 [] c = "4" -> 4
      [] c = "5" -> 5 [] c = "6" -> 6 [] c = "7" -> 7 [] c = "8" -> 8 [] c = "9" -> 9

RECURSIVE SkipSpaces(_)
SkipSpaces(s) == IF Len(s) > 0 /\ s[1] = " " THEN SkipSpaces(Tail(s)) ELSE s

RECURSIVE DigitPrefix(_)
\* the longest prefix of s made of digits
DigitPrefix(s) ==
    IF Len(s) > 0 /\ s[1] \in Digits THEN <<s[1]>> \o DigitPrefix(Tail(s)) ELSE <<>>

RECURSIVE DigitsToNat(_, _)
DigitsToNat(s, acc) ==
    IF Len(s) = 0 THEN acc ELSE DigitsToNat(Tail(s), 10 * acc + DigitValue(s[1]))

\* parseInt(text): leading white space, an optional sign, then the longest run
\* of digits; NaN when there is no digit
ParseInt(text) ==
    LET t == SkipSpaces(text)
        signed == Len(t) > 0 /\ t[1] \in {"-", "+"}
        body == DigitPrefix(IF signed THEN Tail(t) ELSE t)
        magnitude == DigitsToNat(body, 0)
    IN  IF Len(body) = 0 THEN [nan |-> TRUE, value |-> 0]
        ELSE [nan |-> FALSE,
              value |-> IF signed /\ t[1] = "-" THEN 0 - magnitude ELSE magnitude]

ParseIntOr_NaNOnly(text, fallback) ==
    LET n == ParseInt(text)
    IN  IF n.nan THEN fallback ELSE n.value

\* parseInt(text) || fallback: NaN and 0 are falsy
ParseIntOr(text, fallback) ==
    LET n == ParseInt(text)
    IN  IF n.nan \/ n.value = 0 THEN fallback ELSE n.value

\* states in which the program awaits a line from the operator
Prompts == {"menu", "settings", "deployPrompt", "nextWalletPrompt", "reportPrompt"}

\* time passes while the program waits for the operator (the time a chain call
\* takes is not told apart: a record's timestamp is the reading at the last prompt
\* or timer)
Tick ==
    /\ pc \in Prompts
    /\ now < MaxClock
    /\ now' = now + 1
    /\ UNCHANGED <<variant, keyFile, pc, exitCode, wallets, settings, typed, logVars, diskVars, runVars>>

\* displayMenu(), cases '2' and '3': enter a sub-menu
MenuEnter ==
    /\ pc = "menu"
    /\ \E c \in {"2", "3"} :
          pc' = IF c = "2" THEN "deployPrompt" ELSE "settings"
    /\ UNCHANGED <<variant, keyFile, exitCode, wallets, settings, typed, now, logVars, diskVars, runVars>>

\* displayMenu(), case '1': showAllBalances(); a getBalance that throws is caught
\* nowhere below main().catch, which exits with code 1
ShowAllBalances ==
    /\ pc = "menu"
    /\ \E allOk \in BOOLEAN :
          IF allOk
          THEN pc' = "menu" /\ UNCHANGED exitCode
          ELSE pc' = "exit" /\ exitCode' = 1
    /\ UNCHANGED <<variant, keyFile, wallets, settings, typed, now, logVars, diskVars, runVars>>

\* displayMenu(), case '4': viewPreviousReports() only reads the disk
ViewPreviousReports ==
    /\ pc = "menu"
    /\ pc' = "menu"
    /\ UNCHANGED <<variant, keyFile, exitCode, wallets, settings, typed, now, logVars, diskVars, runVars>>

\* displayMenu(), case '5' (exit) and default (invalid choice, menu again)
MenuOther ==
    /\ pc = "menu"
    /\ \E c \in MenuInputs \ {"1", "2", "3", "4"} :
          IF c = "5"
          THEN pc' = "exit" /\ exitCode' = 0
          ELSE pc' = "menu" /\ UNCHANGED exitCode
    /\ UNCHANGED <<variant, keyFile, wallets, settings, typed, now, logVars, diskVars, runVars>>

\* settingsMenu(): one pass of its loop
SettingsMenu ==
    /\ pc = "settings"
    /\ \E c \in SettingsMenuInputs, text \in SettingTexts :
          /\ settings' =
                CASE c = "1" -> [settings EXCEPT !.interactionCount =
                                    ParseIntOr(text, DefaultInteractionCount)]
                  [] c = "2" -> [settings EXCEPT !.interactionInterval =
                                    ParseIntOr(text, DefaultInteractionInterval)]
                  [] OTHER -> settings
          /\ typed' =
                CASE c = "1" -> [field |-> "interactionCount", text |-> text]
                  [] c = "2" -> [field |-> "interactionInterval", text |-> text]
                  [] OTHER -> NothingTyped
          /\ pc' = IF c = "4" THEN "menu" ELSE "settings"
    /\ UNCHANGED <<variant, keyFile, exitCode, wallets, now, logVars, diskVars, runVars>>

(***************************************************************************)
(* Asset deployer and interaction executors.  An asset address is a fresh  *)
(* key (Keypair.generate(), or the address the chain returns): the least   *)
(* number no deployment record carries.                                    *)
(***************************************************************************)
FreshAddress == Len(deployments) + 1

ContractType(c) == IF c = "1" THEN "Token" ELSE "NFT"

\* awaited chain calls of one deploy: deployToken of part_000 asks for the rent
\* exemption and submits two transactions; deployToken of deploy.js calls
\* createMint and getOrCreateAssociatedTokenAccount; deployNFT calls nfts().create
DeployCalls(v, c) ==
    IF c = "1" THEN (IF v = "part_000" THEN 3 ELSE 2) ELSE 1

InsertAsset_Replace(w, c, addr) ==
    IF c = "1"
    THEN [w EXCEPT !.tokenAccounts = {addr}]
    ELSE [w EXCEPT !.nftAccounts = {addr}]

\* wallet.tokenAccounts.set(...) / wallet.nftAccounts.set(...): the map entry is
\* inserted after the last awaited call returned
InsertAsset(w, c, addr) ==
    IF c = "1"
    THEN [w EXCEPT !.tokenAccounts = @ \cup {addr}]
    ELSE [w EXCEPT !.nftAccounts = @ \cup {addr}]

Undefined == [defined |-> FALSE, text |-> "undefined", amount |-> 0, to |-> 0]
Text(t, amount, to) == [defined |-> TRUE, text |-> t, amount |-> amount, to |-> to]
Returned(v) == [threw |-> FALSE, chain |-> FALSE, error |-> "", value |-> v]
\* an error the chain client raised
Rejected(e) == [threw |-> TRUE, chain |-> TRUE, error |-> e, value |-> Undefined]
\* an error raised by the program itself
Thrown(e) == [threw |-> TRUE, chain |-> FALSE, error |-> e, value |-> Undefined]

\* Math.floor(Math.random() * range) + 1
RandomAmount(k, range) == RandomIndex(k, AmountGrain, range) + 1

RandomWallet_First(ws, k) == ws[1]

\* this.wallets[Math.floor(Math.random() * this.wallets.length)]
RandomWallet(ws, k) == ws[RandomIndex(k, PickGrain, Len(ws)) + 1]

\* the random draws and the chain's answers one interaction attempt may consume:
\* ka the amount's draw, kw the recipient's draw, ataExists whether getAccount
\* finds the recipient's holding account, createOk whether its creation is
\* confirmed, submitOk whether the operation itself is confirmed; only a
\* transfer picks a recipient and looks up its account
Environments(action) ==
    IF action = "transfer"
    THEN [ka : 0..(AmountGrain - 1), kw : 0..(PickGrain - 1),
          ataExists : BOOLEAN, createOk : BOOLEAN, submitOk : BOOLEAN]
    ELSE [ka : 0..(AmountGrain - 1), kw : {0},
          ataExists : {TRUE}, createOk : {TRUE}, submitOk : BOOLEAN]

\* performTokenInteraction of part_000
PerformTokenInteractionA(ws, w, addr, action, env) ==
    IF addr \notin w.tokenAccounts THEN Thrown("Token not found")
    ELSE CASE action = "mint" ->
                IF env.submitOk
                THEN Returned(Text("Minted", RandomAmount(env.ka, MintAmountRange), 0))
                ELSE Rejected("Mint failed")
           [] action = "transfer" ->
                IF (env.ataExists \/ env.createOk) /\ env.submitOk
                THEN Returned(Text("Transferred", RandomAmount(env.ka, TransferAmountRange),
                                   RandomWallet(ws, env.kw).index))
                ELSE Rejected("Transfer failed")
           [] action = "burn" ->
                IF env.submitOk
                THEN Returned(Text("Burned", RandomAmount(env.ka, BurnAmountRange), 0))
                ELSE Rejected("Burn failed")
           [] OTHER -> Thrown("Unknown action")

\* performTokenInteraction of deploy.js, the later of its two definitions (a
\* class keeps the last method of a name): mintTo, transfer, burn and
\* getOrCreateAssociatedTokenAccount are not bound in that module, which
\* imports the library as the namespace splToken, so every case throws a
\* ReferenceError before any chain call; the switch has no default
PerformTokenInteractionB(ws, w, addr, action, env) ==
    IF addr \notin w.tokenAccounts THEN Thrown("Token not found")
    ELSE CASE action = "mint" -> Thrown("mintTo is not defined")
           [] action = "transfer" -> Thrown("getOrCreateAssociatedTokenAccount is not defined")
           [] action = "burn" -> Thrown("burn is not defined")
           [] OTHER -> Returned(Undefined)

\* performNFTInteraction of deploy.js; the switch has no default
PerformNFTInteraction(ws, w, addr, action, env) ==
    IF addr \notin w.nftAccounts THEN Thrown("NFT not found")
    ELSE CASE action = "mint" ->
                IF env.submitOk THEN Returned(Text("Minted new NFT", 0, 0))
                ELSE Rejected("create failed")
           [] action = "transfer" ->
                IF env.submitOk
                THEN Returned(Text("Transferred NFT", 0, RandomWallet(ws, env.kw).index))
                ELSE Rejected("transfer failed")
           [] action = "updateMetadata" ->
                IF env.submitOk THEN Returned(Text("Updated NFT metadata", 0, 0))
                ELSE Rejected("update failed")
           [] OTHER -> Returned(Undefined)

Call(name, ok) == [call |-> name, ok |-> ok]

TransferCalls_TransferAnyway(env) ==
    <<Call("getAccount", env.ataExists)>>
    \o (IF env.ataExists THEN <<>> ELSE <<Call("createAccount", env.createOk)>>)
    \o <<Call("transfer", env.submitOk)>>

\* the chain calls of part_000's transfer case, in order, each with whether it
\* returned: getAccount; when it threw, the submission that creates the
\* account; when the account was found or created, the transfer's submission
TransferCalls(env) ==
    <<Call("getAccount", env.ataExists)>>
    \o (IF env.ataExists THEN <<>> ELSE <<Call("createAccount", env.createOk)>>)
    \o (IF env.ataExists \/ env.createOk THEN <<Call("transfer", env.submitOk)>> ELSE <<>>)

\* the chain calls one executor call makes, in order (deploy.js's
\* performTokenInteraction throws before it makes any)
ChainCalls(v, c, w, addr, action, env) ==
    IF c = "1"
    THEN IF v = "part_000" /\ addr \in w.tokenAccounts
         THEN CASE action = "mint" -> <<Call("mint", env.submitOk)>>
                [] action = "transfer" -> TransferCalls(env)
                [] action = "burn" -> <<Call("burn", env.submitOk)>>
                [] OTHER -> <<>>
         ELSE <<>>
    ELSE IF addr \in w.nftAccounts
         THEN CASE action = "mint" -> <<Call("create", env.submitOk)>>
                [] action = "transfer" -> <<Call("transfer", env.submitOk)>>
                [] action = "updateMetadata" -> <<Call("update", env.submitOk)>>
                [] OTHER -> <<>>
         ELSE <<>>

\* the position in this.wallets of randomWallet
RecipientPosition(ws, k) == RandomIndex(k, PickGrain, Len(ws)) + 1

\* what one executor call did: its chain calls, the wallet its transfer
\* submission (if any) named as the owner of the destination, and how it ended
AttemptOf(v, c, ws, w, addr, action, env, out) ==
    LET calls == ChainCalls(v, c, w, addr, action, env)
    IN  [action |-> action,
         calls |-> calls,
         recipient |-> IF \E k \in 1..Len(calls) : calls[k].call = "transfer"
                       THEN RecipientPosition(ws, env.kw) ELSE 0,
         error |-> out.error,
         returned |-> ~out.threw]

\* the case labels of the executor's switch, by asset kind
HandledActions(kind) ==
    IF kind = "Token" THEN {"mint", "transfer", "burn"}
    ELSE {"mint", "transfer", "updateMetadata"}

\* choice === '1' ? performTokenInteraction(...) : performNFTInteraction(...)
PerformInteraction(v, c, ws, w, addr, action, env) ==
    IF c = "1"
    THEN (IF v = "part_000"
          THEN PerformTokenInteractionA(ws, w, addr, action, env)
          ELSE PerformTokenInteractionB(ws, w, addr, action, env))
    ELSE PerformNFTInteraction(ws, w, addr, action, env)

\* choice === '1' ? TOKEN_INTERACTIONS : NFT_INTERACTIONS
InteractionSet(c) == IF c = "1" THEN TOKEN_INTERACTIONS ELSE NFT_INTERACTIONS

\* interactions[Math.floor(Math.random() * interactions.length)]
PickAction(c, k) == InteractionSet(c)[RandomIndex(k, PickGrain, Len(InteractionSet(c))) + 1]

(***************************************************************************)
(* Report generator.                                                       *)
(***************************************************************************)
\* Date.prototype.toLocaleTimeString(): the time of day to the second
LocaleTime(t) == (t \div 1000) % 86400

\* address.slice(0, 16) + '...'
Slice16(addr) == <<"first16", addr, "...">>

DeployRow(d) ==
    [time |-> LocaleTime(d.timestamp), wallet |-> d.walletIndex, type |-> d.type,
     address |-> Slice16(d.address)]

InteractionRow(r) ==
    [time |-> LocaleTime(r.timestamp), wallet |-> r.walletIndex, type |-> r.type,
     action |-> r.action, result |-> r.result.text, amount |-> r.result.amount,
     to |-> r.result.to]

RenderDeployments_Reversed(log) == [k \in 1..Len(log) |-> DeployRow(log[Len(log) + 1 - k])]

\* this.deployments.forEach(d => deployTable.push([...]))
RenderDeployments(log) == [k \in 1..Len(log) |-> DeployRow(log[k])]

\* this.interactions.forEach(i => interactionTable.push([...]))
RenderInteractions(log) == [k \in 1..Len(log) |-> InteractionRow(log[k])]

\* `sonic-report-${Date.now()}.txt`
ReportFileName(t) == [prefix |-> "sonic-report-", stamp |-> t, suffix |-> ".txt"]

\* generateReport(): fs.writeFileSync replaces a file of the same name
GenerateReport ==
    LET report == [deployRows |-> RenderDeployments(deployments),
                   interactionRows |-> RenderInteractions(interactions),
                   generatedAt |-> now]
        name == ReportFileName(now)
    IN  /\ files' = {f \in files : f.name # name} \cup {[name |-> name, content |-> report]}
        /\ written' = Append(written, name)
        /\ lastReport' = report

(***************************************************************************)
(* Orchestrator: startDeployment().                                        *)
(***************************************************************************)
DeployInputs == {"1", "2", "3", "x"}
Balances == {BalanceThreshold - 1, BalanceThreshold}

\* the prompt's answers that start a run: part_000 returns on '2' and on every
\* answer but '1'; deploy.js returns on '3' alone
StartsRun(v, c) == IF v = "part_000" THEN c = "1" ELSE c # "3"

Insufficient_Inclusive(balance) == balance <= BalanceThreshold

\* balance < 0.1 * 1e9
Insufficient(balance) == balance < BalanceThreshold

AfterWallet_NoReport(pos, n) ==
    [wi |-> pos + 1, pc |-> IF pos + 1 <= n THEN "balance" ELSE "menu"]

\* the for...of loop moves to the next wallet; after the last one the run
\* goes on to generate the report
AfterWallet(pos, n) ==
    [wi |-> pos + 1, pc |-> IF pos + 1 <= n THEN "balance" ELSE "report"]

OnWalletError_Break == "report"

OnWalletError_Retry == "balance"

\* the per-wallet catch: log, then question('Press Enter to continue with next wallet...')
OnWalletError == "nextWalletPrompt"

\* for (let i = 1; i <= this.settings.interactionCount; i++)
LoopTest(iNext, count) == iNext <= count

\* where control is once the loop counter is iNext
LoopNext(iNext, count, pos, n) ==
    IF LoopTest(iNext, count) THEN [wi |-> pos, pc |-> "interact"] ELSE AfterWallet(pos, n)

PushDeployment_Skipped(log, t, w, c, addr, r) == log

\* this.deployments.push({timestamp, walletIndex, type, address}); `run` is history
PushDeployment(log, t, w, c, addr, r) ==
    Append(log, [timestamp |-> t, walletIndex |-> w.index, type |-> ContractType(c),
                 address |-> addr, run |-> r])

\* this.interactions.push({timestamp, walletIndex, type, action, result}); `run` is history
PushInteraction(log, t, w, c, action, res, r) ==
    Append(log, [timestamp |-> t, walletIndex |-> w.index, type |-> ContractType(c),
                 action |-> action, result |-> res, run |-> r])

\* if (i < this.settings.interactionCount) await new Promise(r => setTimeout(...))
SleepsAfter(iNow, count) == iNow < count

\* setTimeout(r, this.settings.interactionInterval * 60 * 1000)
\* (the timer takes a delay below 1 or above 2147483647 as 1)
SleepMs(interval) ==
    LET ms == interval * MsPerMinute
    IN  IF ms < 1 \/ ms > 2147483647 THEN 1 ELSE ms

ClockAfter(t, ms) == IF t + ms > MaxClock THEN MaxClock ELSE t + ms

\* the deploy-type prompt answered with a choice that returns to the main menu
DeployPromptReturn ==
    /\ pc = "deployPrompt"
    /\ \E c \in DeployInputs : ~StartsRun(variant, c)
    /\ pc' = "menu"
    /\ UNCHANGED <<variant, keyFile, exitCode, wallets, settings, typed, now, logVars, diskVars, runVars>>

\* the deploy-type prompt answered with a choice that starts a run
StartRun ==
    /\ pc = "deployPrompt"
    /\ Len(written) < MaxReports
    /\ Len(deployments) + Len(interactions)
          + Len(wallets) * (1 + Max0(settings.interactionCount)) <= MaxRecords
    /\ \E c \in DeployInputs :
          /\ StartsRun(variant, c)
          /\ choice' = c
    /\ run' = run + 1
    /\ wi' = 1
    /\ i' = 0
    /\ result' = 0
    /\ pc' = "balance"
    /\ balRead' = [p \in 1..Len(wallets) |-> -1]
    /\ deployOutcome' = [p \in 1..Len(wallets) |-> "none"]
    /\ attempts' = [p \in 1..Len(wallets) |-> 0]
    /\ delays' = [p \in 1..Len(wallets) |-> 0]
    /\ chainFailed' = FALSE
    /\ lastAttempt' = NoAttempt
    /\ lastDeploy' = -1
    /\ UNCHANGED <<variant, keyFile, exitCode, wallets, settings, typed, now, logVars, diskVars>>

\* await this.connection.getBalance(wallet.publicKey), then the threshold test
GetBalance ==
    /\ pc = "balance"
    /\ \/ /\ balRead' = [balRead EXCEPT ![wi] = -2]
          /\ chainFailed' = TRUE
          /\ pc' = OnWalletError
          /\ UNCHANGED wi
       \/ \E b \in Balances :
             /\ balRead' = [balRead EXCEPT ![wi] = b]
             /\ UNCHANGED chainFailed
             /\ IF Insufficient(b)
                THEN /\ pc' = AfterWallet(wi, Len(wallets)).pc
                     /\ wi' = AfterWallet(wi, Len(wallets)).wi
                ELSE /\ pc' = "deploy"
                     /\ UNCHANGED wi
    /\ lastAttempt' = NoAttempt
    /\ lastDeploy' = -1
    /\ UNCHANGED <<variant, keyFile, exitCode, wallets, settings, typed, now, logVars, diskVars,
                   choice, i, result, run, deployOutcome, attempts, delays>>

Deploy_InsertOnFailure ==
    /\ pc = "deploy"
    /\ \E failAt \in 0..DeployCalls(variant, choice) :
          IF failAt = 0
          THEN LET addr == FreshAddress
                   next == LoopNext(1, settings.interactionCount, wi, Len(wallets))
               IN  /\ wallets' = [wallets EXCEPT ![wi] = InsertAsset(@, choice, addr)]
                   /\ deployments' = PushDeployment(deployments, now, wallets[wi], choice, addr, run)
                   /\ deployOutcome' = [deployOutcome EXCEPT ![wi] = "ok"]
                   /\ result' = addr
                   /\ i' = 1
                   /\ pc' = next.pc
                   /\ wi' = next.wi
                   /\ lastDeploy' = DeployCalls(variant, choice)
                   /\ UNCHANGED chainFailed
          ELSE /\ deployOutcome' = [deployOutcome EXCEPT ![wi] = "failed"]
               /\ chainFailed' = TRUE
               /\ lastDeploy' = failAt - 1
               /\ pc' = OnWalletError
               /\ wallets' = [wallets EXCEPT ![wi] = InsertAsset(@, choice, FreshAddress)]
               /\ UNCHANGED <<deployments, result, i, wi>>
    /\ UNCHANGED <<variant, keyFile, exitCode, settings, typed, now, interactions, diskVars,
                   choice, run, balRead, attempts, delays, lastAttempt>>

\* deployToken(wallet) / deployNFT(wallet), then this.deployments.push(...);
\* failAt = 0: every awaited call returned; failAt = k: the k-th one threw
Deploy ==
    /\ pc = "deploy"
    /\ \E failAt \in 0..DeployCalls(variant, choice) :
          IF failAt = 0
          THEN LET addr == FreshAddress
                   next == LoopNext(1, settings.interactionCount, wi, Len(wallets))
               IN  /\ wallets' = [wallets EXCEPT ![wi] = InsertAsset(@, choice, addr)]
                   /\ deployments' = PushDeployment(deployments, now, wallets[wi], choice, addr, run)
                   /\ deployOutcome' = [deployOutcome EXCEPT ![wi] = "ok"]
                   /\ result' = addr
                   /\ i' = 1
                   /\ pc' = next.pc
                   /\ wi' = next.wi
                   /\ lastDeploy' = DeployCalls(variant, choice)
                   /\ UNCHANGED chainFailed
          ELSE /\ deployOutcome' = [deployOutcome EXCEPT ![wi] = "failed"]
               /\ chainFailed' = TRUE
               /\ lastDeploy' = failAt - 1
               /\ pc' = OnWalletError
               /\ UNCHANGED <<wallets, deployments, result, i, wi>>
    /\ UNCHANGED <<variant, keyFile, exitCode, settings, typed, now, interactions, diskVars,
                   choice, run, balRead, attempts, delays, lastAttempt>>

\* one iteration of the interaction loop up to its sleep
Interact ==
    /\ pc = "interact"
    /\ \E k \in 0..(PickGrain - 1) : \E env \in Environments(PickAction(choice, k)) :
          LET action == PickAction(choice, k)
              out == PerformInteraction(variant, choice, wallets, wallets[wi], result, action, env)
              next == LoopNext(i + 1, settings.interactionCount, wi, Len(wallets))
          IN  /\ attempts' = [attempts EXCEPT ![wi] = @ + 1]
              /\ lastAttempt' = AttemptOf(variant, choice, wallets, wallets[wi], result,
                                          action, env, out)
              /\ lastDeploy' = -1
              /\ chainFailed' = (chainFailed \/ out.chain)
              /\ IF out.threw
                 THEN /\ i' = i + 1
                      /\ pc' = next.pc
                      /\ wi' = next.wi
                      /\ UNCHANGED interactions
                 ELSE /\ interactions' =
                            PushInteraction(interactions, now, wallets[wi], choice, action,
                                            out.value, run)
                      /\ IF SleepsAfter(i, settings.interactionCount)
                         THEN /\ pc' = "sleep"
                              /\ UNCHANGED <<i, wi>>
                         ELSE /\ i' = i + 1
                              /\ pc' = next.pc
                              /\ wi' = next.wi
    /\ UNCHANGED <<variant, keyFile, exitCode, wallets, settings, typed, now, deployments, diskVars,
                   choice, result, run, balRead, deployOutcome, delays>>

\* the timer of the inter-interaction delay fires
Sleep ==
    /\ pc = "sleep"
    /\ now' = ClockAfter(now, SleepMs(settings.interactionInterval))
    /\ delays' = [delays EXCEPT ![wi] = @ + 1]
    /\ i' = i + 1
    /\ pc' = LoopNext(i + 1, settings.interactionCount, wi, Len(wallets)).pc
    /\ wi' = LoopNext(i + 1, settings.interactionCount, wi, Len(wallets)).wi
    /\ lastAttempt' = NoAttempt
    /\ UNCHANGED <<variant, keyFile, exitCode, wallets, settings, typed, logVars, diskVars,
                   choice, result, run, balRead, deployOutcome, attempts, chainFailed,
                   lastDeploy>>

\* the operator answers 'Press Enter to continue with next wallet...'
PressEnterNextWallet ==
    /\ pc = "nextWalletPrompt"
    /\ pc' = AfterWallet(wi, Len(wallets)).pc
    /\ wi' = AfterWallet(wi, Len(wallets)).wi
    /\ UNCHANGED <<variant, keyFile, exitCode, wallets, settings, typed, now, logVars, diskVars,
                   choice, i, result, run, balRead, deployOutcome, attempts, delays, chainFailed,
                   lastAttempt>>
    /\ lastDeploy' = -1

\* after the wallet loop: this.generateReport()
RunReport ==
    /\ pc = "report"
    /\ GenerateReport
    /\ pc' = "reportPrompt"
    /\ lastAttempt' = NoAttempt
    /\ lastDeploy' = -1
    /\ UNCHANGED <<variant, keyFile, exitCode, wallets, settings, typed, now, logVars,
                   choice, wi, i, result, run, balRead, deployOutcome, attempts, delays,
                   chainFailed>>

ReportInputs == {"m", "M", "r", "R", "x"}

\* toLowerCase() of a prompt answer
ToLowerCase(a) == CASE a = "M" -> "m" [] a = "R" -> "r" [] OTHER -> a

\* part_000: 'M' leaves the report loop, anything but 'M' and 'R' asks again;
\* deploy.js: any answer to 'Press Enter to return to main menu...' returns.
\* startDeployment's locals end with it, and the per-run history with them
ReportPromptLeave ==
    /\ pc = "reportPrompt"
    /\ \E a \in ReportInputs :
          IF variant = "deploy_js" \/ ToLowerCase(a) = "m"
          THEN /\ pc' = "menu"
               /\ choice' = ""
               /\ wi' = 0
               /\ i' = 0
               /\ result' = 0
               /\ balRead' = NoHistory
               /\ deployOutcome' = NoHistory
               /\ attempts' = NoHistory
               /\ delays' = NoHistory
               /\ chainFailed' = FALSE
          ELSE UNCHANGED <<pc, choice, wi, i, result, balRead, deployOutcome, attempts, delays,
                           chainFailed>>
    /\ UNCHANGED <<variant, keyFile, exitCode, wallets, settings, typed, now, logVars, diskVars, run,
                   lastAttempt, lastDeploy>>

\* part_000: 'R' regenerates the report
ReportPromptRegenerate ==
    /\ pc = "reportPrompt"
    /\ variant = "part_000"
    /\ Len(written) < MaxReports
    /\ \E a \in ReportInputs : ToLowerCase(a) = "r"
    /\ GenerateReport
    /\ UNCHANGED <<variant, keyFile, pc, exitCode, wallets, settings, typed, now, logVars, runVars>>

Next ==
    \/ Load
    \/ Tick
    \/ MenuEnter
    \/ ShowAllBalances
    \/ ViewPreviousReports
    \/ MenuOther
    \/ SettingsMenu
    \/ DeployPromptReturn
    \/ StartRun
    \/ GetBalance
    \/ Deploy
    \/ Interact
    \/ Sleep
    \/ PressEnterNextWallet
    \/ RunReport
    \/ ReportPromptLeave
    \/ ReportPromptRegenerate

Spec == Init /\ [][Next]_vars

\* init() alone, over longer key files
LoadInit ==
    /\ keyFile \in KeyFilesUpTo(MaxLoadLines)
    /\ Constructed

LoadSpec == LoadInit /\ [][Load]_vars

\* the steps of a run; the event loop resumes the run whenever the chain
\* answers, the timer fires, or the operator answers the next-wallet prompt
RunStep ==
    \/ GetBalance
    \/ Deploy
    \/ Interact
    \/ Sleep
    \/ PressEnterNextWallet
    \/ RunReport

\* every chain call of a run is answered, its timers fire, and the operator
\* answers the run's prompts
FairSpec == Spec /\ WF_vars(RunStep)

(***************************************************************************)
(* Vocabulary of the properties.                                           *)
(***************************************************************************)
Positions == DOMAIN deployOutcome

\* the wallet loop has left the wallet at position p
Left(p) == wi > p

\* records of the current run that carry the display index of the wallet at p
RunRecords(log, p) ==
    {k \in 1..Len(log) : log[k].run = run /\ log[k].walletIndex = wallets[p].index}

LoopStates == {"balance", "deploy", "interact", "sleep", "nextWalletPrompt"}

(***************************************************************************)
(* C1: for every wallet whose deploy succeeded, once the interaction loop  *)
(* is over exactly settings.interactionCount attempts were made.           *)
(***************************************************************************)
C1_ExactlyCountAttempts ==
    \A p \in Positions :
        (deployOutcome[p] = "ok" /\ Left(p)) => attempts[p] = settings.interactionCount

(***************************************************************************)
(* C2: a wallet whose deploy failed has no deployment record, no           *)
(* interaction record and no interaction attempt in that run, and when the *)
(* wallet loop is over every wallet after it has had its balance read and, *)
(* when funded, its deploy attempted.                                      *)
(***************************************************************************)
C2_FailedDeployIsolated ==
    \A p \in Positions :
        deployOutcome[p] = "failed" =>
            /\ attempts[p] = 0
            /\ RunRecords(deployments, p) = {}
            /\ RunRecords(interactions, p) = {}
            /\ pc \in {"report", "reportPrompt"} =>
                  \A q \in Positions :
                      q > p => /\ balRead[q] # -1
                               /\ balRead[q] >= BalanceThreshold => deployOutcome[q] # "none"

C2_Witness ==
    /\ pc = "reportPrompt"
    /\ Len(wallets) = 2
    /\ deployOutcome[1] = "failed"
    /\ deployOutcome[2] = "ok"
    /\ attempts[2] >= 1
    /\ RunRecords(interactions, 2) # {}

(***************************************************************************)
(* C3: a wallet whose balance read is below 100,000,000 gets no deploy     *)
(* attempt, no interaction attempt and no record of the run; a wallet      *)
(* whose balance is the threshold or more goes on to its deploy.           *)
(***************************************************************************)
C3_LowBalanceSkipped ==
    \A p \in Positions :
        /\ (balRead[p] >= 0 /\ balRead[p] < 100000000) =>
              /\ deployOutcome[p] = "none"
              /\ attempts[p] = 0
              /\ RunRecords(deployments, p) = {}
              /\ RunRecords(interactions, p) = {}
              /\ ~(pc = "deploy" /\ wi = p)
        /\ balRead[p] >= 100000000 =>
              \/ deployOutcome[p] # "none"
              \/ (pc = "deploy" /\ wi = p)

C3_Witness ==
    /\ Len(wallets) = 2
    /\ pc = "reportPrompt"
    /\ balRead[1] = 99999999
    /\ balRead[2] = 100000000
    /\ deployOutcome[2] = "ok"

(***************************************************************************)
(* C4: every interaction record has a deployment record of the same        *)
(* wallet index, asset kind and run.                                       *)
(***************************************************************************)
C4_DeploymentPrecedesInteraction ==
    \A k \in 1..Len(interactions) :
        \E d \in 1..Len(deployments) :
            /\ deployments[d].walletIndex = interactions[k].walletIndex
            /\ deployments[d].type = interactions[k].type
            /\ deployments[d].run = interactions[k].run

\* an interaction of the second run, for a wallet that also deployed in the first
C4_Witness ==
    /\ Len(deployments) = 2
    /\ deployments[1].run = 1
    /\ deployments[2].run = 2
    /\ deployments[1].walletIndex = deployments[2].walletIndex
    /\ Len(interactions) >= 1
    /\ interactions[Len(interactions)].run = 2

(***************************************************************************)
(* C5: in a Token run in which no chain call threw, a wallet whose deploy  *)
(* succeeded ends its loop with one deployment record and                  *)
(* settings.interactionCount interaction records of the run (count >= 1).  *)
(***************************************************************************)
C5_AcceptedRunLogsCountRecords ==
    \A p \in Positions :
        (/\ choice = "1"
         /\ ~chainFailed
         /\ settings.interactionCount >= 1
         /\ deployOutcome[p] = "ok"
         /\ Left(p)) =>
            /\ Cardinality(RunRecords(deployments, p)) = 1
            /\ Cardinality(RunRecords(interactions, p)) = settings.interactionCount

(***************************************************************************)
(* C6: a wallet's interaction loop of n >= 1 attempts has n - 1 delays.    *)
(***************************************************************************)
C6_DelayBetweenAttempts ==
    \A p \in Positions :
        (deployOutcome[p] = "ok" /\ Left(p) /\ attempts[p] >= 1) =>
            delays[p] = attempts[p] - 1

(***************************************************************************)
(* C7: the run never waits for the operator between a failed wallet and    *)
(* the next one.                                                           *)
(***************************************************************************)
C7_NoOperatorWait == pc # "nextWalletPrompt"

\* the processing of the wallet at wi fails in this step
WalletFails ==
    \/ pc = "balance" /\ balRead'[wi] = -2
    \/ pc = "deploy" /\ deployOutcome'[wi] = "failed"

(***************************************************************************)
(* C7, amended: when the processing of a wallet fails the run waits at the *)
(* prompt 'Press Enter to continue with next wallet...'; the answer to     *)
(* that prompt, and nothing else, moves it to the next wallet in load      *)
(* order, or to the report after the last one.                             *)
(***************************************************************************)
C7_NextWalletAfterEnter ==
    [][ /\ WalletFails => (pc' = "nextWalletPrompt" /\ wi' = wi)
        /\ (pc = "nextWalletPrompt" /\ pc' # pc) =>
              /\ wi' = wi + 1
              /\ pc' = IF wi < Len(wallets) THEN "balance" ELSE "report" ]_vars

\* after a failed deploy and the operator's answer, the second wallet is at its deploy
C7_Witness ==
    /\ Positions = {1, 2}
    /\ deployOutcome[1] = "failed"
    /\ wi = 2
    /\ pc = "deploy"

C9_ReportRowsMatchLogs ==
    [][written' # written =>
        /\ deployments' = deployments
        /\ interactions' = interactions
        /\ Len(lastReport'.deployRows) = Len(deployments)
        /\ \A k \in 1..Len(deployments) :
              /\ lastReport'.deployRows[k].wallet = deployments[k].walletIndex
              /\ lastReport'.deployRows[k].type = deployments[k].type
              /\ lastReport'.deployRows[k].address[2] = deployments[k].address
        /\ Len(lastReport'.interactionRows) = Len(interactions)
        /\ \A k \in 1..Len(interactions) :
              /\ lastReport'.interactionRows[k].wallet = interactions[k].walletIndex
              /\ lastReport'.interactionRows[k].type = interactions[k].type
              /\ lastReport'.interactionRows[k].action = interactions[k].action
              /\ lastReport'.interactionRows[k].result = interactions[k].result.text
        /\ \E f \in files' :
              /\ f.name = written'[Len(written')]
              /\ f.content = lastReport' ]_vars

\* a report that holds the records of two runs
C9_Witness ==
    /\ Len(written) = 2
    /\ Len(lastReport.deployRows) = 2
    /\ Len(lastReport.interactionRows) >= 1
    /\ deployments[1].run = 1
    /\ deployments[2].run = 2

(***************************************************************************)
(* C10: the names of the report files written in one process are pairwise  *)
(* distinct.                                                               *)
(***************************************************************************)
C10_ReportNamesDistinct ==
    \A a, b \in 1..Len(written) : a # b => written[a] # written[b]
(***************************************************************************)
(* Vocabulary of the key-file properties.                                  *)
(***************************************************************************)
\* the number of lines of kind k among the first n lines of the key file
CountLines(n, k) == Cardinality({p \in 1..n : keyFile.lines[p] = k})

\* the positions of the key file's valid lines
ValidLines == {p \in 1..Len(keyFile.lines) : keyFile.lines[p] = "valid"}

\* the position of the j-th valid line of the key file
NthValidLine(j) == CHOOSE p \in ValidLines : CountLines(p, "valid") = j

Loaded == pc # "start" /\ keyFile.exists

(***************************************************************************)
(* C11: init() loads one wallet per line that decodes to a keypair, in     *)
(* file order: the j-th wallet comes from the j-th valid line (its index   *)
(* is that line's rank among the non-blank lines), whatever blank or       *)
(* malformed lines stand before or after it.                               *)
(***************************************************************************)
C11_OneWalletPerValidLine ==
    Loaded =>
        /\ Len(wallets) = Cardinality(ValidLines)
        /\ \A j \in 1..Len(wallets) :
              wallets[j].index =
                  NthValidLine(j) - CountLines(NthValidLine(j), "blank")

\* 2 valid keys, 1 blank line and 1 malformed key between them: 2 wallets
C11_Witness ==
    /\ pc = "menu"
    /\ keyFile.lines = <<"valid", "blank", "malformed", "valid">>
    /\ Len(wallets) = 2

(***************************************************************************)
(* C12: after a successful load the wallets carry the display indices      *)
(* 1, 2, ..., n in file order.                                             *)
(***************************************************************************)
C12_IndicesConsecutive ==
    Loaded => \A j \in 1..Len(wallets) : wallets[j].index = j

(***************************************************************************)
(* C13: with a key file that is missing, empty, or holds only blank and    *)
(* malformed lines the process leaves its start only by exiting with code  *)
(* 1: it never shows a menu, starts no run, and writes nothing.            *)
(***************************************************************************)
C13_NoWalletsExitsOne ==
    ValidLines = {} =>
        /\ pc \in {"start", "exit"}
        /\ pc = "exit" => exitCode = 1
        /\ pc = "start" => exitCode = -1
        /\ run = 0
        /\ deployments = <<>> /\ interactions = <<>>
        /\ written = <<>> /\ files = {}

\* a key file of a blank and a malformed line: exit code 1
C13_Witness ==
    /\ keyFile.exists
    /\ keyFile.lines = <<"blank", "malformed">>
    /\ pc = "exit"
    /\ exitCode = 1

(***************************************************************************)
(* C14: an executor given an action outside the cases of its switch        *)
(* throws, so no interaction record carries such an action.                *)
(***************************************************************************)
C14_UnknownActionNotRecorded ==
    \A k \in 1..Len(interactions) :
        interactions[k].action \in HandledActions(interactions[k].type)

(***************************************************************************)
(* C15: settings.interactionCount is a positive integer and                *)
(* settings.interactionInterval a non-negative one, whatever was typed in  *)
(* the settings menu.                                                      *)
(***************************************************************************)
C15_SettingsInRange ==
    /\ settings.interactionCount \in Nat \ {0}
    /\ settings.interactionInterval \in Nat

(***************************************************************************)
(* C16: once init() has succeeded the process ends only by the menu's      *)
(* exit (code 0); exit code 1 is left to the failures of init().           *)
(***************************************************************************)
C16_OnlyInitFailuresFatal ==
    /\ exitCode = 1 => Len(wallets) = 0
    /\ (pc = "exit" /\ Len(wallets) > 0) => exitCode = 0

(***************************************************************************)
(* Vocabulary of the transfer properties.                                  *)
(***************************************************************************)
\* the executor call a submitted a `name` call
Submitted(a, name) == \E k \in 1..Len(a.calls) : a.calls[k].call = name

\* the executor call a submitted the creation of the recipient's holding
\* account and the submission failed
CreationFailed(a) ==
    \E k \in 1..Len(a.calls) : a.calls[k].call = "createAccount" /\ ~a.calls[k].ok

(***************************************************************************)
(* C17: every loaded wallet, the sender included, can be drawn as the      *)
(* recipient of a transfer; a transfer is sent to a loaded wallet; and the *)
(* wallet number in the result string of a transfer that returned is the   *)
(* display index of the wallet it was sent to.                             *)
(***************************************************************************)
C17_TransferRecipientLoaded ==
    /\ pc \notin {"start", "exit"} =>
          \A q \in 1..Len(wallets) :
              \E k \in 0..(PickGrain - 1) : RecipientPosition(wallets, k) = q
    /\ Submitted(lastAttempt, "transfer") =>
          lastAttempt.recipient \in 1..Len(wallets)
    /\ (lastAttempt.action = "transfer" /\ lastAttempt.returned) =>
          /\ lastAttempt.recipient \in 1..Len(wallets)
          /\ interactions[Len(interactions)].action = "transfer"
          /\ interactions[Len(interactions)].result.to = wallets[lastAttempt.recipient].index

\* the second wallet's transfer went to the first wallet, which the run had
\* skipped for its low balance
C17_Witness ==
    /\ variant = "part_000"
    /\ Positions = {1, 2}
    /\ balRead[1] = 99999999
    /\ lastAttempt.action = "transfer"
    /\ lastAttempt.returned
    /\ lastAttempt.recipient = 1
    /\ interactions[Len(interactions)].result.text = "Transferred"

\* sequence a is a prefix of sequence b
IsPrefix(a, b) == Len(a) <= Len(b) /\ SubSeq(b, 1, Len(a)) = a

(***************************************************************************)
(* C18: in every step after the load, each log keeps its records as a      *)
(* prefix of its next value (records are only appended), the wallet list   *)
(* keeps its wallets and their indices, and every wallet's asset maps keep *)
(* their entries.                                                          *)
(***************************************************************************)
C18_LogsAndMapsOnlyGrow ==
    [][ /\ IsPrefix(deployments, deployments')
        /\ IsPrefix(interactions, interactions')
        /\ pc # "start" =>
              /\ Len(wallets') = Len(wallets)
              /\ \A p \in 1..Len(wallets) :
                    /\ wallets'[p].index = wallets[p].index
                    /\ wallets[p].tokenAccounts \subseteq wallets'[p].tokenAccounts
                    /\ wallets[p].nftAccounts \subseteq wallets'[p].nftAccounts ]_vars

\* after two runs a wallet holds both of its assets and the logs the records of both
C18_Witness ==
    /\ pc = "reportPrompt"
    /\ run = 2
    /\ Len(wallets) = 1
    /\ Cardinality(wallets[1].tokenAccounts \cup wallets[1].nftAccounts) = 2
    /\ Len(deployments) = 2
    /\ deployments[1].run = 1
    /\ Len(interactions) = 2
    /\ interactions[1].run = 1

(***************************************************************************)
(* C19: a token transfer is submitted only after getAccount found the      *)
(* recipient's holding account or the submission creating it was           *)
(* confirmed; when that creation fails no transfer is submitted, the       *)
(* attempt ends with 'Transfer failed', no interaction record is appended  *)
(* and the loop goes on to its next iteration.                             *)
(***************************************************************************)
C19_TransferAfterAccountKnown ==
    /\ [](choice = "1" =>
            \A k \in 1..Len(lastAttempt.calls) :
                lastAttempt.calls[k].call = "transfer" =>
                    \E j \in 1..(k - 1) :
                        /\ lastAttempt.calls[j].call \in {"getAccount", "createAccount"}
                        /\ lastAttempt.calls[j].ok)
    /\ [][(pc = "interact" /\ attempts' # attempts /\ CreationFailed(lastAttempt')) =>
            /\ ~Submitted(lastAttempt', "transfer")
            /\ lastAttempt'.error = "Transfer failed"
            /\ ~lastAttempt'.returned
            /\ interactions' = interactions
            /\ i' = i + 1
            /\ IF i + 1 <= settings.interactionCount
               THEN pc' = "interact" /\ wi' = wi
               ELSE pc' \in {"balance", "report"} /\ wi' = wi + 1]_vars

\* the creation of the recipient's account failed in the first iteration and
\* the loop stands at its second
C19_Witness ==
    /\ pc = "interact"
    /\ i = 2
    /\ CreationFailed(lastAttempt)
    /\ attempts[wi] = 1
    /\ Len(interactions) = 0

(***************************************************************************)
(* C20: every action the orchestrator can pick for an asset kind is a case *)
(* of that kind's executor, and every interaction record carries a defined *)
(* result string.                                                          *)
(***************************************************************************)
C20_PickedActionsHandled ==
    /\ \A c \in {"1", "2"} : \A k \in 0..(PickGrain - 1) :
          PickAction(c, k) \in HandledActions(ContractType(c))
    /\ \A k \in 1..Len(interactions) : interactions[k].result.defined

(***************************************************************************)
(* Vocabulary of the deploy properties.                                    *)
(***************************************************************************)
\* the addresses of the deployment records of asset kind `kind` that carry
\* the display index of wallet w
RecordedAssets(w, kind) ==
    {deployments[k].address :
        k \in {j \in 1..Len(deployments) :
                  deployments[j].walletIndex = w.index /\ deployments[j].type = kind}}

(***************************************************************************)
(* C21: outside a deploy call, the addresses keyed in each wallet's asset  *)
(* maps are the addresses of the deployment records of that wallet index,  *)
(* kind by kind; a deploy that fails, at whichever of its awaited calls,   *)
(* leaves neither a map entry nor a record.                                *)
(***************************************************************************)
C21_MapsMatchDeploymentLog ==
    /\ \A p \in 1..Len(wallets) :
          /\ wallets[p].tokenAccounts = RecordedAssets(wallets[p], "Token")
          /\ wallets[p].nftAccounts = RecordedAssets(wallets[p], "NFT")
    /\ \A k \in 1..Len(deployments) :
          \E p \in 1..Len(wallets) : wallets[p].index = deployments[k].walletIndex

\* part_000: the first wallet deployed its token; the second wallet's deploy
\* failed at its last submission, after the first one was confirmed
C21_Witness ==
    /\ variant = "part_000"
    /\ pc = "nextWalletPrompt"
    /\ Positions = {1, 2}
    /\ wi = 2
    /\ lastDeploy = 2
    /\ deployOutcome[1] = "ok"
    /\ Cardinality(wallets[1].tokenAccounts) = 1
    /\ wallets[2].tokenAccounts = {}
    /\ Len(deployments) = 1

(***************************************************************************)
(* Vocabulary of the settings properties.                                  *)
(***************************************************************************)
\* what the settings menu is to store for a typed text: the integer typed,
\* or the setting's default for a text that is 0 or no integer
ToStore(text, default) ==
    CASE text = <<"0">> -> default
      [] text = <<"a">> -> default
      [] text = <<"1">> -> 1
      [] text = <<"-", "1">> -> 0 - 1
      [] text = <<" ", "1", "a">> -> 1

(***************************************************************************)
(* C22: neither setting is ever 0; a typed text that is 0 or no integer    *)
(* stores the default (3 for interactionCount, 1 for interactionInterval), *)
(* any other integer, a negative one included, is stored as typed.         *)
(***************************************************************************)
C22_SettingsNeverZero ==
    /\ settings.interactionCount # 0
    /\ settings.interactionInterval # 0
    /\ typed.field = "interactionCount" =>
          settings.interactionCount = ToStore(typed.text, 3)
    /\ typed.field = "interactionInterval" =>
          settings.interactionInterval = ToStore(typed.text, 1)

\* with a count of -1 stored, "0" typed for the interval stored the default 1
C22_Witness ==
    /\ pc = "settings"
    /\ settings.interactionCount = 0 - 1
    /\ typed.field = "interactionInterval"
    /\ typed.text = <<"0">>
    /\ settings.interactionInterval = 1

(***************************************************************************)
(* C23: a run is in progress only on a listed choice of the deploy-type    *)
(* prompt: a Token run on '1', an NFT run (deploy.js) on '2'; any other    *)
(* input leaves the prompt for the main menu with nothing changed.         *)
(***************************************************************************)
C23_RunOnlyOnListedChoice ==
    /\ pc \in LoopStates \cup {"report", "reportPrompt"} =>
          /\ choice \in (IF variant = "part_000" THEN {"1"} ELSE {"1", "2"})
          /\ \A k \in 1..Len(deployments) :
                deployments[k].run = run =>
                    deployments[k].type = (IF choice = "1" THEN "Token" ELSE "NFT")
    /\ pc \in {"menu", "deployPrompt"} => choice = ""

====
